---- MODULE Spec2Model ----
(***************************************************************************)
(* Model of the ness-wear backend (src/index.js): the category and         *)
(* subcategory CRUD routes, the bearer-token middleware and the startup    *)
(* sequence.  src/index.js holds two entry points: lines 1-359 (ids are    *)
(* strings made from the clock, "string" below) and lines 361-696 (ids are *)
(* database-assigned ObjectIds, "objectid" below).  The variable `variant` *)
(* says which entry point the process runs.                                *)
(*                                                                         *)
(* Representation of JavaScript values:                                    *)
(*   - a value that may be undefined is a sequence of length 0 or 1:       *)
(*     <<>> is undefined (or an absent JSON key), <<v>> is the value v;    *)
(*   - an identifier string (URL :id, body categoryId) is a sequence of    *)
(*     one-character strings, so that parsing and printing can be          *)
(*     computed; other strings (name, description, image) are TLA+ strings;*)
(*   - a Date is the clock reading it was made from;                       *)
(*   - an ObjectId is the sequence of its hexadecimal digit values.        *)
(***************************************************************************)
EXTENDS Integers, Sequences, FiniteSets, TLC

\* Bounds of the model.
MaxClock == 2     \* clock readings are 1..MaxClock
MaxInserts == 2   \* insertOne calls in one run
OidLen == 2       \* hex digits of an ObjectId (24 in the driver)

VARIABLES
    variant,        \* "string" | "objectid": which entry point runs
    secret,         \* process.env.JWT_SECRET is set
    phase,          \* "load" | "connecting" | "up" | "exited"
    listening,      \* app.listen has been called
    db,             \* the `db` handle is assigned (let db)
    nameIndex,      \* the unique index on name exists in both collections
    clock,          \* new Date().getTime()
    inserts,        \* insertOne calls made so far (ObjectIds generated)
    categories,     \* collection "categories": set of documents
    subcategories,  \* collection "subcategories": set of documents
    req,            \* the last request handled
    resp,           \* the response to it
    served,         \* some request has been handled by a route or middleware
    calls           \* per client: its request in flight, suspended at an await

vars == <<variant, secret, phase, listening, db, nameIndex, clock, inserts,
          categories, subcategories, req, resp, served, calls>>

-----------------------------------------------------------------------------
\* Strings, numbers and ObjectIds

Undefined == <<>>
Null == "null"                  \* BSON / JSON null
Some(v) == <<v>>

HexLower == <<"0","1","2","3","4","5","6","7","8","9","a","b","c","d","e","f">>
HexUpper == <<"0","1","2","3","4","5","6","7","8","9","A","B","C","D","E","F">>

IsHexChar(c) == \E n \in 1..16 : HexLower[n] = c \/ HexUpper[n] = c
HexValue(c) == (CHOOSE n \in 1..16 : HexLower[n] = c \/ HexUpper[n] = c) - 1

\* Number.prototype.toString(): the decimal digits of n
RECURSIVE toString(_)
toString(n) ==
    IF n < 10 THEN <<HexLower[n + 1]>>
    ELSE Append(toString(n \div 10), HexLower[(n % 10) + 1])

\* new ObjectId(s) for a string s: throws unless s is OidLen hex digits of
\* either case; the value is the digits' values.
ObjectIdValid(s) == Len(s) = OidLen /\ \A i \in 1..Len(s) : IsHexChar(s[i])
ObjectId(s) == [i \in 1..Len(s) |-> HexValue(s[i])]

\* ObjectId.prototype.toHexString / toJSON: lower-case hex
ToHexString(oid) == [i \in 1..Len(oid) |-> HexLower[oid[i] + 1]]
ToUpperHex(oid) == [i \in 1..Len(oid) |-> HexUpper[oid[i] + 1]]

\* The n-th ObjectId the driver generates: zero-padded hex of a counter that
\* starts in the letter digits.
GenerateOid(n) == [i \in 1..OidLen |-> IF i = OidLen THEN 9 + n ELSE 0]

-----------------------------------------------------------------------------
\* Token service and authentication middleware

\* Of the tokens a client may present, "good" is one signed with the server's
\* secret and not expired; jwt.verify throws for every other token, and for
\* every token when no secret is configured.
verifyToken(token) ==
    IF secret /\ token = "good" THEN Some("decoded") ELSE Undefined

\* An Authorization header is given by the pieces split(' ') cuts it into;
\* <<>> is a request without the header.
Headers == { <<>>, <<"Bearer", "good">>, <<"Bearer", "expired">>,
             <<"Bearer", "tampered">>, <<"Basic", "good">>, <<"Bearer", "", "good">> }

GoodHeader == <<"Bearer", "good">>

\* string-id entry point: authHeader && authHeader.split(' ')[1]
tokenOf_string(h) == IF Len(h) >= 2 THEN Some(h[2]) ELSE Undefined

\* ObjectId entry point: startsWith("Bearer ") ? split(" ")[1] : null
tokenOf_objectid(h) ==
    IF Len(h) >= 2 /\ h[1] = "Bearer" THEN Some(h[2]) ELSE Undefined

\* The status authenticateToken answers with, or 0 when it calls next().
authenticateToken(h) ==
    LET token == IF variant = "string" THEN tokenOf_string(h)
                 ELSE tokenOf_objectid(h)
    IN  IF token = Undefined \/ token = Some("") THEN 401
        ELSE IF verifyToken(token[1]) = Undefined THEN 403
        ELSE 0

-----------------------------------------------------------------------------
\* Persistence gateway: the driver calls the handlers make

\* The filter { _id: ... } a route builds from an identifier string.  The
\* ObjectId entry point throws on a string that is no ObjectId.
IdThrows(id) == variant = "objectid" /\ ~ObjectIdValid(id)
IdKey(id) == IF variant = "string" THEN id ELSE ObjectId(id)

\* The identifier as JSON shows it
IdJson(key) == IF variant = "string" THEN key ELSE ToHexString(key)

\* findOne({ _id: key }): the set of matching documents (0 or 1 of them)
findOne(coll, key) == { d \in coll : d._id = key }

\* find({ categoryId })
findByCategory(coll, categoryId) == { d \in coll : d.categoryId = categoryId }

\* insertOne throws E11000 on a duplicate _id, or on a duplicate name when
\* the unique index exists
insertThrows(coll, doc) ==
    \/ \E d \in coll : d._id = doc._id
    \/ nameIndex /\ \E d \in coll : d.name = doc.name

insertOne(coll, doc) == coll \cup {doc}

\* A faulty $set that also overwrites createdAt
applySet_touchCreated(d, updateData) ==
    [f \in DOMAIN d |->
        IF f = "createdAt" THEN updateData.updatedAt[1]
        ELSE IF f \in DOMAIN updateData /\ updateData[f] # Undefined
        THEN updateData[f][1] ELSE d[f]]

\* updateOne({ _id: key }, { $set: updateData }): updateData maps each field
\* to Undefined (not in $set) or Some(value)
applySet(d, updateData) ==
    [f \in DOMAIN d |->
        IF f \in DOMAIN updateData /\ updateData[f] # Undefined
        THEN updateData[f][1] ELSE d[f]]

updateThrows(coll, key, updateData) ==
    /\ nameIndex
    /\ updateData.name # Undefined
    /\ \E d \in coll, e \in coll :
          d._id = key /\ e._id # key /\ e.name = updateData.name[1]

updateOne(coll, key, updateData) ==
    { IF d._id = key THEN applySet(d, updateData) ELSE d : d \in coll }

matchedCount(coll, key) == Cardinality(findOne(coll, key))

\* deleteOne({ _id: key })
deleteOne(coll, key) == { d \in coll : d._id # key }

\* deleteMany({ categoryId: id })
deleteMany(coll, categoryId) == { d \in coll : d.categoryId # categoryId }

\* BSON serialisation of an inserted object: a key whose value is undefined
\* is stored as null (ignoreUndefined is off)
bsonSerialize(obj) ==
    [f \in DOMAIN obj |-> IF obj[f] = Undefined THEN Null ELSE obj[f][1]]

\* JSON of a stored document: every field present, _id as a string
jsonOfDoc(d) ==
    [f \in DOMAIN d |-> IF f = "_id" THEN Some(IdJson(d._id)) ELSE Some(d[f])]

-----------------------------------------------------------------------------
\* Request handlers.  Each yields the response and the collections after it.

Out(status, doc, list, cats, subs, n) ==
    [status |-> status, doc |-> doc, list |-> list,
     cats |-> cats, subs |-> subs, inserts |-> n]

\* A response that leaves the collections alone and carries no document
Reply(status) == Out(status, Undefined, {}, categories, subcategories, inserts)

\* !x for a string that may be undefined
Falsy(v, empty) == v = Undefined \/ v = Some(empty)

\* The identifier a create assigns: the clock's digits, or a fresh ObjectId
newId == IF variant = "string" THEN toString(clock)
         ELSE GenerateOid(inserts + 1)
insertsAfter == inserts + 1

\* res.json(obj) of the object a create built: undefined keys are dropped
\* (they stay Undefined here), _id is shown as a string
jsonStringify(obj) ==
    [f \in DOMAIN obj |-> IF f = "_id" THEN Some(IdJson(obj._id[1])) ELSE obj[f]]

\* GET /categories
getCategories ==
    IF ~db THEN Reply(500)
    ELSE Out(200, Undefined, { jsonOfDoc(d) : d \in categories },
             categories, subcategories, inserts)

\* GET /categories/:id
getCategory(id) ==
    IF ~db \/ IdThrows(id) THEN Reply(500)
    ELSE LET found == findOne(categories, IdKey(id))
         IN  IF found = {} THEN Reply(404)
             ELSE Out(200, Some(jsonOfDoc(CHOOSE d \in found : TRUE)), {},
                      categories, subcategories, inserts)

\* POST /categories
postCategory(body) ==
    IF Falsy(body.name, "") THEN Reply(400)
    ELSE
    LET isActive == IF body.isActive = Undefined THEN TRUE ELSE body.isActive[1]
        category == [_id |-> Some(newId), name |-> body.name,
                     description |-> body.description, image |-> body.image,
                     isActive |-> Some(isActive),
                     createdAt |-> Some(clock), updatedAt |-> Some(clock)]
        doc == bsonSerialize(category)
    IN  IF ~db THEN Reply(500)
        ELSE IF insertThrows(categories, doc)
        THEN Out(500, Undefined, {}, categories, subcategories, insertsAfter)
        ELSE Out(201, Some(jsonStringify(category)), {},
                 insertOne(categories, doc), subcategories, insertsAfter)

\* PUT /categories/:id
putCategory(id, body) ==
    LET updateData == [name |-> body.name, description |-> body.description,
                       image |-> body.image, isActive |-> body.isActive,
                       updatedAt |-> Some(clock)]
    IN  IF ~db \/ IdThrows(id) THEN Reply(500)
        ELSE IF updateThrows(categories, IdKey(id), updateData) THEN Reply(500)
        ELSE IF matchedCount(categories, IdKey(id)) = 0 THEN Reply(404)
        ELSE LET cats == updateOne(categories, IdKey(id), updateData)
                 updatedCategory == CHOOSE d \in findOne(cats, IdKey(id)) : TRUE
             IN  Out(200, Some(jsonOfDoc(updatedCategory)), {},
                     cats, subcategories, inserts)

\* DELETE /categories/:id
deleteCategory(id) ==
    IF ~db \/ IdThrows(id) THEN Reply(500)
    ELSE IF matchedCount(categories, IdKey(id)) = 0 THEN Reply(404)
    ELSE Out(200, Undefined, {}, deleteOne(categories, IdKey(id)),
             deleteMany(subcategories, id), inserts)

\* GET /subcategories?categoryId=
getSubcategories(categoryId) ==
    IF ~db THEN Reply(500)
    ELSE LET found == IF categoryId = Undefined \/ categoryId = Some(<<>>)
                      THEN subcategories
                      ELSE findByCategory(subcategories, categoryId[1])
         IN  Out(200, Undefined, { jsonOfDoc(d) : d \in found },
                 categories, subcategories, inserts)

\* GET /subcategories/:id
getSubcategory(id) ==
    IF ~db \/ IdThrows(id) THEN Reply(500)
    ELSE LET found == findOne(subcategories, IdKey(id))
         IN  IF found = {} THEN Reply(404)
             ELSE Out(200, Some(jsonOfDoc(CHOOSE d \in found : TRUE)), {},
                      categories, subcategories, inserts)

\* POST /subcategories
postSubcategory(body) ==
    IF Falsy(body.name, "") THEN Reply(400)
    ELSE IF Falsy(body.categoryId, <<>>) THEN Reply(400)
    ELSE IF ~db \/ IdThrows(body.categoryId[1]) THEN Reply(500)
    ELSE IF findOne(categories, IdKey(body.categoryId[1])) = {} THEN Reply(400)
    ELSE
    LET isActive == IF body.isActive = Undefined THEN TRUE ELSE body.isActive[1]
        subcategory == [_id |-> Some(newId), name |-> body.name,
                        description |-> body.description,
                        categoryId |-> body.categoryId, image |-> body.image,
                        isActive |-> Some(isActive),
                        createdAt |-> Some(clock), updatedAt |-> Some(clock)]
        doc == bsonSerialize(subcategory)
    IN  IF insertThrows(subcategories, doc)
        THEN Out(500, Undefined, {}, categories, subcategories, insertsAfter)
        ELSE Out(201, Some(jsonStringify(subcategory)), {},
                 categories, insertOne(subcategories, doc), insertsAfter)

\* A faulty handler: the update runs before the parent category is looked up
putSubcategory_updateFirst(id, body) ==
    LET updateData == [name |-> body.name, description |-> body.description,
                       image |-> body.image, isActive |-> body.isActive,
                       categoryId |-> Undefined, updatedAt |-> Some(clock)]
        subs == IF IdThrows(id) THEN subcategories
                ELSE updateOne(subcategories, IdKey(id), updateData)
    IN  IF ~db THEN Reply(500)
        ELSE IF body.categoryId # Undefined /\ IdThrows(body.categoryId[1])
        THEN Reply(500)
        ELSE IF /\ body.categoryId # Undefined
                /\ findOne(categories, IdKey(body.categoryId[1])) = {}
        THEN Out(400, Undefined, {}, categories, subs, inserts)
        ELSE Reply(404)

\* PUT /subcategories/:id
putSubcategory(id, body) ==
    LET updateData == [name |-> body.name, description |-> body.description,
                       image |-> body.image, isActive |-> body.isActive,
                       categoryId |-> body.categoryId,
                       updatedAt |-> Some(clock)]
    IN  IF ~db THEN Reply(500)
        ELSE IF body.categoryId # Undefined /\ IdThrows(body.categoryId[1])
        THEN Reply(500)
        ELSE IF /\ body.categoryId # Undefined
                /\ findOne(categories, IdKey(body.categoryId[1])) = {}
        THEN Reply(400)
        ELSE IF IdThrows(id) THEN Reply(500)
        ELSE IF updateThrows(subcategories, IdKey(id), updateData) THEN Reply(500)
        ELSE IF matchedCount(subcategories, IdKey(id)) = 0 THEN Reply(404)
        ELSE LET subs == updateOne(subcategories, IdKey(id), updateData)
                 updatedSubcategory == CHOOSE d \in findOne(subs, IdKey(id)) : TRUE
             IN  Out(200, Some(jsonOfDoc(updatedSubcategory)), {},
                     categories, subs, inserts)

\* DELETE /subcategories/:id
deleteSubcategory(id) ==
    IF ~db \/ IdThrows(id) THEN Reply(500)
    ELSE IF matchedCount(subcategories, IdKey(id)) = 0 THEN Reply(404)
    ELSE Out(200, Undefined, {}, categories,
             deleteOne(subcategories, IdKey(id)), inserts)

\* A mutating route runs behind authenticateToken
Guarded(h, out) ==
    IF authenticateToken(h) # 0 THEN Reply(authenticateToken(h)) ELSE out

-----------------------------------------------------------------------------
\* Requests the clients send

Profiles ==
    { [description |-> Undefined, image |-> Undefined, isActive |-> Undefined],
      [description |-> Some("d1"), image |-> Undefined, isActive |-> Undefined],
      [description |-> Some("d1"), image |-> Some("i1"), isActive |-> Some(FALSE)] }

Bare == CHOOSE p \in Profiles : p.description = Undefined
Full == CHOOSE p \in Profiles : p.image # Undefined

MkBody(name, p, categoryId) ==
    [name |-> name, description |-> p.description, image |-> p.image,
     isActive |-> p.isActive, categoryId |-> categoryId]

NoBody == MkBody(Undefined, Bare, Undefined)

Names == {Some("n1"), Some("n2")}

\* Identifier strings clients put in URLs and bodies: the identifiers the
\* server hands out, the first of them also in upper case, and a string that
\* is no ObjectId.
Malformed == [i \in 1..OidLen |-> "z"]
IdInputs ==
    IF variant = "string"
    THEN { toString(t) : t \in 1..MaxClock } \cup {Malformed}
    ELSE { ToHexString(GenerateOid(n)) : n \in 1..MaxInserts }
         \cup {ToUpperHex(GenerateOid(1)), Malformed}

FirstId == IF variant = "string" THEN toString(1) ELSE ToHexString(GenerateOid(1))

CategoryIdInputs == {Undefined, Some(<<>>)} \cup { Some(i) : i \in IdInputs }

CategoryCreateBodies ==
    { MkBody(n, p, Undefined) : n \in Names, p \in Profiles }
    \cup { MkBody(Undefined, Bare, Undefined), MkBody(Some(""), Bare, Undefined) }

CategoryUpdateBodies ==
    { MkBody(Undefined, p, Undefined) : p \in Profiles }
    \cup { MkBody(n, Bare, Undefined) : n \in Names }
    \cup { MkBody(Some("n2"), Full, Undefined) }

SubcategoryCreateBodies ==
    { MkBody(n, Bare, Some(i)) : n \in Names, i \in IdInputs }
    \cup { MkBody(Some("n1"), Full, Some(i)) : i \in IdInputs }
    \cup { MkBody(Undefined, Bare, Some(FirstId)),
           MkBody(Some("n1"), Bare, Undefined), MkBody(Some("n1"), Bare, Some(<<>>)),
           MkBody(Some(""), Bare, Undefined) }

SubcategoryUpdateBodies ==
    { MkBody(Undefined, p, Undefined) : p \in Profiles }
    \cup { MkBody(Some("n2"), Bare, Undefined) }
    \cup { MkBody(Undefined, Bare, Some(i)) : i \in IdInputs }
    \cup { MkBody(Some("n2"), Full, Some(i)) : i \in {FirstId, Malformed} }
    \cup { MkBody(Undefined, Bare, Some(<<>>)) }

PlainBody == MkBody(Some("n1"), Bare, Undefined)

Mutations(bodies, b0) ==
    { <<GoodHeader, b>> : b \in bodies } \cup { <<h, b0>> : h \in Headers }

\* The same for the routes with an :id
IdMutations(bodies, b0) ==
    { <<GoodHeader, b, id>> : b \in bodies, id \in IdInputs }
    \cup { <<h, b0, FirstId>> : h \in Headers }

NoReq == [route |-> "none", header |-> <<>>, id |-> <<>>, body |-> NoBody]

NoResp == [status |-> 0, doc |-> Undefined, list |-> {}]

Request(route, header, id, body) ==
    [route |-> route, header |-> header, id |-> id, body |-> body]

\* Requests are handled one at a time: no request is being answered
Idle == req = NoReq

\* Clients whose requests the server handles concurrently
Clients == 1..2

\* A request in flight: the handler's locals and the await it is suspended at
\* (pc), then the response it sent
NoCall == [route |-> "none", id |-> <<>>, body |-> NoBody, pc |-> "idle",
           at |-> 0, status |-> 0, doc |-> Undefined, clean |-> FALSE]

NoCalls == [p \in Clients |-> NoCall]

-----------------------------------------------------------------------------
\* The state machine

Init ==
    /\ variant \in {"string", "objectid"}
    /\ secret \in BOOLEAN
    /\ phase = "load"
    /\ listening = FALSE
    /\ db = FALSE
    /\ nameIndex = FALSE
    /\ clock = 1
    /\ inserts = 0
    /\ categories = {}
    /\ subcategories = {}
    /\ req = NoReq
    /\ resp = NoResp
    /\ served = FALSE
    /\ calls = NoCalls

\* Module evaluation.  String-id entry point: app.listen is called and its
\* callback starts connectDB.  ObjectId entry point: exit when JWT_SECRET is
\* missing, else connectDB is started.
Start ==
    /\ phase = "load"
    /\ Idle
    /\ IF variant = "string"
       THEN listening' = TRUE /\ phase' = "connecting"
       ELSE listening' = FALSE
            /\ phase' = IF secret THEN "connecting" ELSE "exited"
    /\ UNCHANGED <<calls, variant, secret, db, nameIndex, clock, inserts,
                   categories, subcategories, req, resp, served>>

\* connectDB: client.connect() succeeds or fails; failure is process.exit(1).
\* The ObjectId entry point also creates the unique indexes on name.
connectDB ==
    /\ phase = "connecting"
    /\ Idle
    /\ \E ok \in BOOLEAN :
          IF ok
          THEN /\ db' = TRUE
               /\ nameIndex' = (variant = "objectid")
               /\ phase' = IF variant = "string" THEN "up" ELSE "connected"
               /\ listening' = listening
          ELSE /\ db' = db
               /\ nameIndex' = nameIndex
               /\ phase' = "exited"
               /\ listening' = FALSE
    /\ UNCHANGED <<calls, variant, secret, clock, inserts, categories,
                   subcategories, req, resp, served>>

\* ObjectId entry point: connectDB().then(() => app.listen(...))
Listen ==
    /\ variant = "objectid"
    /\ phase = "connected"
    /\ Idle
    /\ listening' = TRUE
    /\ phase' = "up"
    /\ UNCHANGED <<calls, variant, secret, db, nameIndex, clock, inserts,
                   categories, subcategories, req, resp, served>>

\* Time passes
Tick ==
    /\ clock < MaxClock
    /\ Idle
    /\ clock' = clock + 1
    /\ UNCHANGED <<calls, variant, secret, phase, listening, db, nameIndex,
                   inserts, categories, subcategories, req, resp, served>>

\* The server accepts a request when it listens and is idle
Accepting == listening /\ phase # "exited" /\ Idle

\* A run makes at most MaxInserts inserts
CanCreate == inserts < MaxInserts

Handle(r, out) ==
    /\ req' = r
    /\ resp' = [status |-> out.status, doc |-> out.doc, list |-> out.list]
    /\ categories' = out.cats
    /\ subcategories' = out.subs
    /\ inserts' = out.inserts
    /\ served' = TRUE
    /\ UNCHANGED <<calls, variant, secret, phase, listening, db, nameIndex, clock>>

GetCategories ==
    /\ Accepting
    /\ Handle(Request("GET /categories", <<>>, <<>>, NoBody), getCategories)

GetCategory ==
    /\ Accepting
    /\ \E id \in IdInputs :
          Handle(Request("GET /categories/:id", <<>>, id, NoBody), getCategory(id))

PostCategory ==
    /\ Accepting /\ CanCreate
    /\ \E m \in Mutations(CategoryCreateBodies, PlainBody) :
          Handle(Request("POST /categories", m[1], <<>>, m[2]),
                 Guarded(m[1], postCategory(m[2])))

PutCategory ==
    /\ Accepting
    /\ \E m \in IdMutations(CategoryUpdateBodies, PlainBody) :
          Handle(Request("PUT /categories/:id", m[1], m[3], m[2]),
                 Guarded(m[1], putCategory(m[3], m[2])))

DeleteCategory ==
    /\ Accepting
    /\ \E m \in IdMutations({NoBody}, NoBody) :
          Handle(Request("DELETE /categories/:id", m[1], m[3], NoBody),
                 Guarded(m[1], deleteCategory(m[3])))

GetSubcategories ==
    /\ Accepting
    /\ \E q \in CategoryIdInputs :
          Handle(Request("GET /subcategories", <<>>,
                         IF q = Undefined THEN <<>> ELSE q[1], NoBody),
                 getSubcategories(q))

GetSubcategory ==
    /\ Accepting
    /\ \E id \in IdInputs :
          Handle(Request("GET /subcategories/:id", <<>>, id, NoBody),
                 getSubcategory(id))

PostSubcategory ==
    /\ Accepting /\ CanCreate
    /\ \E m \in Mutations(SubcategoryCreateBodies,
                           MkBody(Some("n1"), Bare, Some(FirstId))) :
          Handle(Request("POST /subcategories", m[1], <<>>, m[2]),
                 Guarded(m[1], postSubcategory(m[2])))

PutSubcategory ==
    /\ Accepting
    /\ \E m \in IdMutations(SubcategoryUpdateBodies, PlainBody) :
          Handle(Request("PUT /subcategories/:id", m[1], m[3], m[2]),
                 Guarded(m[1], putSubcategory(m[3], m[2])))

DeleteSubcategory ==
    /\ Accepting
    /\ \E m \in IdMutations({NoBody}, NoBody) :
          Handle(Request("DELETE /subcategories/:id", m[1], m[3], NoBody),
                 Guarded(m[1], deleteSubcategory(m[3])))

\* The response has been sent (res.json): the request is over
Respond ==
    /\ req # NoReq
    /\ req' = NoReq
    /\ resp' = NoResp
    /\ UNCHANGED <<calls, variant, secret, phase, listening, db, nameIndex, clock,
                   inserts, categories, subcategories, served>>

Next ==
    \/ Start
    \/ connectDB
    \/ Listen
    \/ Tick
    \/ GetCategories
    \/ GetCategory
    \/ PostCategory
    \/ PutCategory
    \/ DeleteCategory
    \/ GetSubcategories
    \/ GetSubcategory
    \/ PostSubcategory
    \/ PutSubcategory
    \/ DeleteSubcategory
    \/ Respond

Spec == Init /\ [][Next]_vars

-----------------------------------------------------------------------------
\* Concurrent handling.  A handler runs without interruption up to its next
\* await; at an await it is suspended and the handlers of other requests run.
\* Each await below is one database operation taking effect, followed by the
\* handler's code up to its next await or its response.

\* What one await step yields: the call after it and the collections
Eff(call, cats, subs, n) ==
    [call |-> call, cats |-> cats, subs |-> subs, inserts |-> n]

Keep(call) == Eff(call, categories, subcategories, inserts)

\* The handler has responded
Done(c, status, doc) == [c EXCEPT !.pc = "done", !.status = status, !.doc = doc]

\* res.json(null)
JsonNull == [null |-> TRUE]

OnCategories(route) ==
    route \in {"POST /categories", "PUT /categories/:id", "DELETE /categories/:id"}

IsCreate(route) == route \in {"POST /categories", "POST /subcategories"}

\* The handler's code before its first await
enter(route, id, body) ==
    LET c == [NoCall EXCEPT !.route = route, !.id = id, !.body = body,
                            !.at = clock]
    IN  IF ~db THEN Done(c, 500, Undefined)
        ELSE IF route = "POST /categories"
        THEN IF Falsy(body.name, "") THEN Done(c, 400, Undefined)
             ELSE [c EXCEPT !.pc = "insertOne"]
        ELSE IF route = "POST /subcategories"
        THEN IF Falsy(body.name, "") \/ Falsy(body.categoryId, <<>>)
             THEN Done(c, 400, Undefined)
             ELSE IF IdThrows(body.categoryId[1]) THEN Done(c, 500, Undefined)
             ELSE [c EXCEPT !.pc = "findParent"]
        ELSE IF route = "PUT /subcategories/:id" /\ body.categoryId # Undefined
        THEN IF IdThrows(body.categoryId[1]) THEN Done(c, 500, Undefined)
             ELSE [c EXCEPT !.pc = "findParent"]
        ELSE IF IdThrows(id) THEN Done(c, 500, Undefined)
        ELSE IF route \in {"PUT /categories/:id", "PUT /subcategories/:id"}
        THEN [c EXCEPT !.pc = "updateOne"]
        ELSE [c EXCEPT !.pc = "deleteOne"]

\* await categories.findOne({ _id: categoryId }), then the parent check; a
\* create then builds its document, reading the clock
awaitFindParent(c) ==
    IF findOne(categories, IdKey(c.body.categoryId[1])) = {}
    THEN Keep(Done(c, 400, Undefined))
    ELSE IF c.route = "POST /subcategories"
    THEN Keep([c EXCEPT !.pc = "insertOne", !.at = clock])
    ELSE Keep([c EXCEPT !.pc = "updateOne"])

\* The object a create builds; the string-id entry point takes _id from the
\* clock it read, the ObjectId entry point lets the driver generate it
built(c) ==
    LET isActive == IF c.body.isActive = Undefined THEN TRUE
                    ELSE c.body.isActive[1]
        _id == IF variant = "string" THEN toString(c.at)
               ELSE GenerateOid(inserts + 1)
    IN  IF OnCategories(c.route)
        THEN [_id |-> Some(_id), name |-> c.body.name,
              description |-> c.body.description, image |-> c.body.image,
              isActive |-> Some(isActive),
              createdAt |-> Some(c.at), updatedAt |-> Some(c.at)]
        ELSE [_id |-> Some(_id), name |-> c.body.name,
              description |-> c.body.description,
              categoryId |-> c.body.categoryId, image |-> c.body.image,
              isActive |-> Some(isActive),
              createdAt |-> Some(c.at), updatedAt |-> Some(c.at)]

\* A guarded insert: the parent category is looked up again as part of the
\* insert and the create is refused when it is gone
awaitInsertOne_parentRechecked(c) ==
    LET doc == bsonSerialize(built(c))
    IN  IF OnCategories(c.route)
        THEN IF insertThrows(categories, doc)
             THEN Eff(Done(c, 500, Undefined), categories, subcategories,
                      insertsAfter)
             ELSE Eff(Done(c, 201, Some(jsonStringify(built(c)))),
                      insertOne(categories, doc), subcategories, insertsAfter)
        ELSE IF findOne(categories, IdKey(c.body.categoryId[1])) = {}
             THEN Keep(Done(c, 400, Undefined))
        ELSE IF insertThrows(subcategories, doc)
             THEN Eff(Done(c, 500, Undefined), categories, subcategories,
                      insertsAfter)
             ELSE Eff(Done(c, 201, Some(jsonStringify(built(c)))),
                      categories, insertOne(subcategories, doc), insertsAfter)

\* await insertOne(document), then the 201 response; a throw is caught: 500
awaitInsertOne(c) ==
    LET doc == bsonSerialize(built(c))
    IN  IF OnCategories(c.route)
        THEN IF insertThrows(categories, doc)
             THEN Eff(Done(c, 500, Undefined), categories, subcategories,
                      insertsAfter)
             ELSE Eff(Done(c, 201, Some(jsonStringify(built(c)))),
                      insertOne(categories, doc), subcategories, insertsAfter)
        ELSE IF insertThrows(subcategories, doc)
             THEN Eff(Done(c, 500, Undefined), categories, subcategories,
                      insertsAfter)
             ELSE Eff(Done(c, 201, Some(jsonStringify(built(c)))),
                      categories, insertOne(subcategories, doc), insertsAfter)

\* await updateOne({ _id }, { $set: updateData }), then the matchedCount test
awaitUpdateOne(c) ==
    LET updateData == [name |-> c.body.name, description |-> c.body.description,
                       image |-> c.body.image, isActive |-> c.body.isActive,
                       categoryId |-> c.body.categoryId,
                       updatedAt |-> Some(c.at)]
        coll == IF OnCategories(c.route) THEN categories ELSE subcategories
    IN  IF IdThrows(c.id) THEN Keep(Done(c, 500, Undefined))
        ELSE IF updateThrows(coll, IdKey(c.id), updateData)
        THEN Keep(Done(c, 500, Undefined))
        ELSE IF matchedCount(coll, IdKey(c.id)) = 0
        THEN Keep(Done(c, 404, Undefined))
        ELSE IF OnCategories(c.route)
        THEN Eff([c EXCEPT !.pc = "findOne"],
                 updateOne(categories, IdKey(c.id), updateData),
                 subcategories, inserts)
        ELSE Eff([c EXCEPT !.pc = "findOne"], categories,
                 updateOne(subcategories, IdKey(c.id), updateData), inserts)

\* await findOne({ _id }), then res.json of what it found: the document, or
\* null when no document has that _id any more
awaitFindOne(c) ==
    LET coll == IF OnCategories(c.route) THEN categories ELSE subcategories
        found == findOne(coll, IdKey(c.id))
    IN  IF found = {} THEN Keep(Done(c, 200, Some(JsonNull)))
        ELSE Keep(Done(c, 200, Some(jsonOfDoc(CHOOSE d \in found : TRUE))))

\* await deleteOne({ _id }), then the deletedCount test
awaitDeleteOne(c) ==
    LET coll == IF OnCategories(c.route) THEN categories ELSE subcategories
    IN  IF matchedCount(coll, IdKey(c.id)) = 0
        THEN Keep(Done(c, 404, Undefined))
        ELSE IF OnCategories(c.route)
        THEN Eff([c EXCEPT !.pc = "deleteMany"],
                 deleteOne(categories, IdKey(c.id)), subcategories, inserts)
        ELSE Eff(Done(c, 200, Undefined), categories,
                 deleteOne(subcategories, IdKey(c.id)), inserts)

\* await subcategories.deleteMany({ categoryId: id }), then the response
awaitDeleteMany(c) ==
    Eff(Done(c, 200, Undefined), categories,
        deleteMany(subcategories, c.id), inserts)

\* Identifiers and bodies the concurrent clients send: the identifiers the
\* server hands out, names, and parent references
ServerIds ==
    IF variant = "string" THEN { toString(t) : t \in 1..MaxClock }
    ELSE { ToHexString(GenerateOid(n)) : n \in 1..MaxInserts }

CreateCategoryCalls == { MkBody(n, Bare, Undefined) : n \in Names }
CreateSubcategoryCalls == { MkBody(n, Bare, Some(i)) : n \in Names, i \in ServerIds }
UpdateCategoryCalls == { MkBody(n, Bare, Undefined) : n \in Names }
UpdateSubcategoryCalls ==
    { MkBody(Some("n2"), Bare, Undefined) }
    \cup { MkBody(Undefined, Bare, Some(i)) : i \in ServerIds }

\* Creates admitted and not yet at the end of their insertOne
Creating == { q \in Clients : IsCreate(calls[q].route)
                              /\ calls[q].pc \in {"findParent", "insertOne"} }

\* A create begins clean when its name is unused in its collection, its
\* parent (for a subcategory) is stored, and the only other request present
\* is such a create on the same collection.
Clean(p, route, body) ==
    /\ IsCreate(route)
    /\ body.name # Undefined
    /\ \A d \in (IF OnCategories(route) THEN categories ELSE subcategories) :
          d.name # body.name[1]
    /\ route = "POST /subcategories" =>
          /\ body.categoryId # Undefined
          /\ ~IdThrows(body.categoryId[1])
          /\ findOne(categories, IdKey(body.categoryId[1])) # {}
    /\ \A q \in Clients \ {p} :
          calls[q].pc = "idle" \/ (calls[q].route = route /\ calls[q].clean)

\* Client p's request arrives and its handler runs up to its first await.  A
\* request that is no clean create ends the cleanness of those present.
Call(p, route, id, body) ==
    /\ listening /\ phase = "up"
    /\ calls[p].pc = "idle"
    /\ calls' = [q \in Clients |->
                    IF q = p
                    THEN [enter(route, id, body) EXCEPT
                             !.clean = Clean(p, route, body)]
                    ELSE [calls[q] EXCEPT
                             !.clean = @ /\ Clean(p, route, body)]]
    /\ UNCHANGED <<variant, secret, phase, listening, db, nameIndex, clock,
                   inserts, categories, subcategories, req, resp, served>>

CallPostCategory ==
    \E p \in Clients, b \in CreateCategoryCalls :
       /\ inserts + Cardinality(Creating) < MaxInserts
       /\ Call(p, "POST /categories", <<>>, b)

CallPutCategory ==
    \E p \in Clients, id \in ServerIds, b \in UpdateCategoryCalls :
       Call(p, "PUT /categories/:id", id, b)

CallDeleteCategory ==
    \E p \in Clients, id \in ServerIds :
       Call(p, "DELETE /categories/:id", id, NoBody)

CallPostSubcategory ==
    \E p \in Clients, b \in CreateSubcategoryCalls :
       /\ inserts + Cardinality(Creating) < MaxInserts
       /\ Call(p, "POST /subcategories", <<>>, b)

CallPutSubcategory ==
    \E p \in Clients, id \in ServerIds, b \in UpdateSubcategoryCalls :
       Call(p, "PUT /subcategories/:id", id, b)

CallDeleteSubcategory ==
    \E p \in Clients, id \in ServerIds :
       Call(p, "DELETE /subcategories/:id", id, NoBody)

\* Client p's handler resumes from the await it is suspended at
Resume(p, eff) ==
    /\ calls' = [calls EXCEPT ![p] = eff.call]
    /\ categories' = eff.cats
    /\ subcategories' = eff.subs
    /\ inserts' = eff.inserts
    /\ UNCHANGED <<variant, secret, phase, listening, db, nameIndex, clock,
                   req, resp, served>>

AwaitFindParent ==
    \E p \in Clients :
       calls[p].pc = "findParent" /\ Resume(p, awaitFindParent(calls[p]))

AwaitInsertOne ==
    \E p \in Clients :
       calls[p].pc = "insertOne" /\ Resume(p, awaitInsertOne(calls[p]))

AwaitUpdateOne ==
    \E p \in Clients :
       calls[p].pc = "updateOne" /\ Resume(p, awaitUpdateOne(calls[p]))

AwaitFindOne ==
    \E p \in Clients :
       calls[p].pc = "findOne" /\ Resume(p, awaitFindOne(calls[p]))

AwaitDeleteOne ==
    \E p \in Clients :
       calls[p].pc = "deleteOne" /\ Resume(p, awaitDeleteOne(calls[p]))

AwaitDeleteMany ==
    \E p \in Clients :
       calls[p].pc = "deleteMany" /\ Resume(p, awaitDeleteMany(calls[p]))

\* The client has its response
Return ==
    \E p \in Clients :
       /\ calls[p].pc = "done"
       /\ calls' = [calls EXCEPT ![p] = NoCall]
       /\ UNCHANGED <<variant, secret, phase, listening, db, nameIndex, clock,
                      inserts, categories, subcategories, req, resp, served>>

\* The server is up: the database is connected and the port is open
InitServing ==
    /\ variant \in {"string", "objectid"}
    /\ secret = TRUE
    /\ phase = "up"
    /\ listening = TRUE
    /\ db = TRUE
    /\ nameIndex = (variant = "objectid")
    /\ clock = 1
    /\ inserts = 0
    /\ categories = {}
    /\ subcategories = {}
    /\ req = NoReq
    /\ resp = NoResp
    /\ served = FALSE
    /\ calls = NoCalls

NextServing ==
    \/ Tick
    \/ CallPostCategory
    \/ CallPutCategory
    \/ CallDeleteCategory
    \/ CallPostSubcategory
    \/ CallPutSubcategory
    \/ CallDeleteSubcategory
    \/ AwaitFindParent
    \/ AwaitInsertOne
    \/ AwaitUpdateOne
    \/ AwaitFindOne
    \/ AwaitDeleteOne
    \/ AwaitDeleteMany
    \/ Return

SpecServing == InitServing /\ [][NextServing]_vars

-----------------------------------------------------------------------------
\* Vocabulary of the properties

CategoryMutations == {"POST /categories", "PUT /categories/:id", "DELETE /categories/:id"}
SubcategoryMutations ==
    {"POST /subcategories", "PUT /subcategories/:id", "DELETE /subcategories/:id"}
MutatingRoutes == CategoryMutations \cup SubcategoryMutations

\* The identifier string `id` names the stored document d
NamesDoc(id, d) ==
    IF variant = "string" THEN d._id = id
    ELSE ObjectIdValid(id) /\ ObjectId(id) = d._id

Identifies(id, coll) == \E d \in coll : NamesDoc(id, d)

\* The request comes with a bearer token the server's secret validates
Authenticated(r) == secret /\ r.header = <<"Bearer", "good">>

\* This step handles a request on `route`
Handles(route) == Idle /\ req'.route = route

-----------------------------------------------------------------------------
\* C1: an authenticated DELETE /categories/:id answered 200 has removed the
\* category and every subcategory that references it, and a GET
\* /subcategories?categoryId=<the category's id> made next returns an empty
\* array.
C1_CascadeRemovesAll ==
    (req.route = "DELETE /categories/:id" /\ resp.status = 200) =>
        /\ ~Identifies(req.id, categories)
        /\ \A s \in subcategories :
              IdThrows(s.categoryId) \/ IdKey(s.categoryId) # IdKey(req.id)
        /\ getSubcategories(Some(IdJson(IdKey(req.id)))).list = {}

\* C2: an authenticated POST /subcategories with a name and a categoryId, on
\* a connected server, with a name and an identifier no stored subcategory
\* has: when the categoryId identifies no stored category the answer is 400
\* and the subcategories are unchanged; when it identifies one the answer is
\* 201 and the returned and the stored categoryId are the supplied value.
C2_ParentChecked ==
    [][ ( /\ Handles("POST /subcategories")
          /\ Authenticated(req') /\ db
          /\ ~Falsy(req'.body.name, "") /\ ~Falsy(req'.body.categoryId, <<>>)
          /\ \A s \in subcategories :
                s.name # req'.body.name[1] /\ s._id # newId )
        => IF Identifies(req'.body.categoryId[1], categories)
           THEN /\ resp'.status = 201
                /\ resp'.doc[1].categoryId = req'.body.categoryId
                /\ \E s \in subcategories' \ subcategories :
                      s.categoryId = req'.body.categoryId[1]
           ELSE /\ resp'.status = 400
                /\ subcategories' = subcategories ]_vars

\* C3: an authenticated PUT /subcategories/:id, on a connected server, whose
\* body carries a categoryId that identifies no stored category is answered
\* 400 and leaves the subcategories as they were.
C3_ReassignRejected ==
    [][ ( /\ Handles("PUT /subcategories/:id")
          /\ Authenticated(req') /\ db
          /\ req'.body.categoryId # Undefined
          /\ ~Identifies(req'.body.categoryId[1], categories) )
        => /\ resp'.status = 400
           /\ subcategories' = subcategories ]_vars

\* C4: on a mutating route a request without a bearer token is answered 401,
\* one with a bearer token that does not validate is answered 403, and only
\* a request with "Bearer <valid token>" gets any other answer or changes a
\* collection.
HasBearerToken(h) == Len(h) >= 2 /\ h[1] = "Bearer" /\ h[2] # ""

C4_BearerRequired ==
    [][ (Idle /\ req'.route \in MutatingRoutes) =>
          IF ~HasBearerToken(req'.header)
          THEN /\ resp'.status = 401
               /\ UNCHANGED <<categories, subcategories>>
          ELSE IF ~(secret /\ req'.header[2] = "good")
          THEN /\ resp'.status = 403
               /\ UNCHANGED <<categories, subcategories>>
          ELSE resp'.status \notin {401, 403} ]_vars

\* C5: no two stored categories have the same name.
C5_UniqueCategoryName ==
    \A c \in categories, d \in categories : c.name = d.name => c = d

\* C6: after a POST /categories answered 201, GET /categories/<returned id>
\* answers 200 with the name, description, image and isActive of the create
\* response, and with createdAt and updatedAt set.
C6_CreateThenGet ==
    (req.route = "POST /categories" /\ resp.status = 201) =>
        LET got == getCategory(resp.doc[1]._id[1])
        IN  /\ got.status = 200
            /\ \A f \in {"name", "description", "image", "isActive"} :
                  got.doc[1][f] = resp.doc[1][f]
            /\ got.doc[1].createdAt # Undefined
            /\ got.doc[1].updatedAt # Undefined

\* C7: a request answered 400 or 404 leaves both collections as they were.
C7_ClientErrorNoWrite ==
    [][ (Idle /\ resp'.status \in {400, 404})
        => UNCHANGED <<categories, subcategories>> ]_vars

C7_Witness ==
    /\ req.route = "PUT /subcategories/:id"
    /\ resp.status = 400
    /\ req.body.name # Undefined /\ req.body.image # Undefined
    /\ Identifies(req.id, subcategories)

\* C8: a request is handled only when the signing secret is configured and
\* the database connection has succeeded; a process that exited has handled
\* none.
C8_NoServiceBeforeReady ==
    /\ served => (secret /\ db)
    /\ phase = "exited" => ~served

\* C9: a PUT answered 200 sets, in the document it names, the supplied
\* fields to the supplied values and updatedAt to the time of the request,
\* and changes nothing else: not its other fields (_id and createdAt
\* included), not any other document of either collection.  A PUT with any
\* other answer changes nothing.
Expected(d, body) ==
    [f \in DOMAIN d |->
        IF f = "updatedAt" THEN clock
        ELSE IF f \in {"name", "description", "image", "isActive", "categoryId"}
                /\ body[f] # Undefined
        THEN body[f][1] ELSE d[f]]

PutFrame(before, after) ==
    LET target == { d \in before : NamesDoc(req'.id, d) }
    IN  IF resp'.status = 200
        THEN /\ target # {}
             /\ after = (before \ target)
                        \cup { Expected(d, req'.body) : d \in target }
        ELSE after = before

C9_PartialUpdateFrame ==
    [][ /\ Handles("PUT /categories/:id") =>
              /\ PutFrame(categories, categories')
              /\ subcategories' = subcategories
        /\ Handles("PUT /subcategories/:id") =>
              /\ PutFrame(subcategories, subcategories')
              /\ categories' = categories ]_vars

C9_Witness ==
    /\ req.route = "PUT /subcategories/:id"
    /\ resp.status = 200
    /\ req.body.image # Undefined /\ req.body.categoryId # Undefined
    /\ categories # {}
    /\ \E d \in subcategories :
          NamesDoc(req.id, d) /\ d.updatedAt > d.createdAt

\* C10: every stored subcategory's categoryId is the identifier of a stored
\* category, written as the server writes identifiers.
C10_ReferencesStoredCategory ==
    \A s \in subcategories : \E c \in categories : s.categoryId = IdJson(c._id)

-----------------------------------------------------------------------------
\* Properties of concurrent handling

MutableFields == {"name", "description", "image", "isActive", "categoryId"}

\* C12: every PUT /categories/:id or PUT /subcategories/:id answered 200
\* returns the target document, with every field the request supplied set to
\* the supplied value, also beside concurrent updates and deletes of the
\* same document.
C12_PutReturnsSupplied ==
    \A p \in Clients :
       ( /\ calls[p].route \in {"PUT /categories/:id", "PUT /subcategories/:id"}
         /\ calls[p].pc = "done"
         /\ calls[p].status = 200 )
       => /\ calls[p].doc # Undefined
          /\ "_id" \in DOMAIN calls[p].doc[1]
          /\ calls[p].doc[1]._id = Some(IdJson(IdKey(calls[p].id)))
          /\ \A f \in MutableFields :
                calls[p].body[f] # Undefined
                => /\ f \in DOMAIN calls[p].doc[1]
                   /\ calls[p].doc[1][f] = calls[p].body[f]

\* The stored document a create's 201 response shows
Stored(c) ==
    { d \in (IF OnCategories(c.route) THEN categories ELSE subcategories) :
         /\ c.doc # Undefined
         /\ c.doc[1]._id = Some(IdJson(d._id))
         /\ d.name = c.body.name[1] }

\* C13: two creates on the same collection that began with distinct unused
\* names (and a stored parent), beside no other request, are both answered
\* 201, with different identifiers, and both documents are stored, whatever
\* the order of their steps and whatever clock values they read.
C13_ConcurrentCreates ==
    \A p \in Clients, q \in Clients :
       ( /\ p # q
         /\ calls[p].pc = "done" /\ calls[q].pc = "done"
         /\ calls[p].clean /\ calls[q].clean
         /\ calls[p].route = calls[q].route
         /\ calls[p].body.name # calls[q].body.name )
       => /\ calls[p].status = 201 /\ calls[q].status = 201
          /\ calls[p].doc[1]._id # calls[q].doc[1]._id
          /\ Stored(calls[p]) # {} /\ Stored(calls[q]) # {}

====
